---- MODULE Spec2Model ----
(***************************************************************************)
(* A model of the form-filling relay: POST /api/v1/fill-form is validated  *)
(* by the transport layer, the handler fill_form_endpoint renders a prompt,*)
(* LLMService.get_completion issues one outbound POST and extracts         *)
(* choices[0].message.content, and the handler parses that text as JSON    *)
(* and answers 200, 500 or 503.                                            *)
(*                                                                         *)
(* Texts (Python str) are sequences of atoms.  An atom is one TLA+ string: *)
(* either a single significant character ("{", "\"", "\n", ...) or a chunk *)
(* of ordinary characters ("name", "John Doe", "42").                      *)
(***************************************************************************)
EXTENDS Integers, Sequences, FiniteSets, TLC

(***************************************************************************)
(* Bounds of the model.                                                    *)
(***************************************************************************)
\* Requests handled concurrently in SpecConc.
NumReq == 2
\* Longest `fields` list of a request body.
MaxFields == 2

(***************************************************************************)
(* Python values, as json.loads and the handlers see them.                 *)
(***************************************************************************)
PyNone == [t |-> "NoneType", v |-> <<>>]
PyBool(b) == [t |-> "bool", v |-> b]
PyNum(lexeme) == [t |-> "number", v |-> lexeme]
PyStr(text) == [t |-> "str", v |-> text]
PyList(items) == [t |-> "list", v |-> items]
PyDict(map) == [t |-> "dict", v |-> map]

EmptyMap == [k \in {} |-> PyNone]
Lit(s) == PyStr(<<s>>)

\* isinstance(x, dict), isinstance(x, str)
IsDict(x) == x.t = "dict"
IsStr(x) == x.t = "str"

\* bool(x): Python truthiness of a JSON-derived value
Truthy(x) ==
    CASE x.t = "NoneType" -> FALSE
      [] x.t = "bool" -> x.v
      [] x.t = "number" -> x.v \notin {"0", "0.0", "-0"}
      [] x.t = "str" -> x.v # <<>>
      [] x.t = "list" -> x.v # <<>>
      [] x.t = "dict" -> DOMAIN x.v # {}

(***************************************************************************)
(* Exceptions and the class hierarchy the except clauses dispatch on.      *)
(***************************************************************************)
NoExc == [cls |-> "", code |-> 0, msg |-> ""]
Exc(cls, msg) == [cls |-> cls, code |-> 0, msg |-> msg]

\* The base classes of each exception class, itself included.
Bases(cls) ==
    CASE cls = "JSONDecodeError" -> {"JSONDecodeError", "ValueError", "Exception"}
      [] cls = "ValidationError" -> {"ValidationError", "ValueError", "Exception"}
      [] cls = "ValueError" -> {"ValueError", "Exception"}
      [] cls = "KeyError" -> {"KeyError", "LookupError", "Exception"}
      [] cls = "TypeError" -> {"TypeError", "Exception"}
      [] cls = "AttributeError" -> {"AttributeError", "Exception"}
      [] cls = "HTTPStatusError" -> {"HTTPStatusError", "HTTPError", "Exception"}
      [] cls = "ConnectError" -> {"ConnectError", "RequestError", "HTTPError", "Exception"}
      [] cls = "ReadTimeout" -> {"ReadTimeout", "RequestError", "HTTPError", "Exception"}
      [] cls = "HTTPException" -> {"HTTPException", "Exception"}
      [] OTHER -> {cls}

IsInstance(exc, classes) == Bases(exc.cls) \cap classes # {}

\* The outcome of a call: a returned value or a raised exception.
Return(val) == [exc |-> NoExc, ok |-> TRUE, val |-> val]
Raise(cls, msg) == [exc |-> Exc(cls, msg), ok |-> FALSE, val |-> PyNone]
\* raise HTTPException(status_code=code, detail=detail)
RaiseHTTP(code, detail) ==
    [exc |-> [cls |-> "HTTPException", code |-> code, msg |-> detail],
     ok |-> FALSE, val |-> PyNone]

(***************************************************************************)
(* json.loads over a text.                                                 *)
(***************************************************************************)
Whitespace == {" ", "\n"}
NumberLexemes == {"0", "5", "42", "1.5"}
RECURSIVE SkipWs(_)
SkipWs(s) == IF s # <<>> /\ Head(s) \in Whitespace THEN SkipWs(Tail(s)) ELSE s

\* The result of a scanning step: a value and the rest of the text, or an error.
Scanned(val, rest) == [err |-> "", ok |-> TRUE, rest |-> rest, val |-> val]
ScanError(msg) == [err |-> msg, ok |-> FALSE, rest |-> <<>>, val |-> PyNone]

\* py_scanstring: the text after an opening quote, up to the closing quote,
\* with the escapes \", \n and \\ decoded ("\\\\n" is an escaped backslash
\* followed by n).
RECURSIVE ScanString(_, _)
ScanString(s, acc) ==
    IF s = <<>> THEN ScanError("Unterminated string starting at")
    ELSE IF Head(s) = "\"" THEN Scanned(PyStr(acc), Tail(s))
    ELSE IF Head(s) = "\\\"" THEN ScanString(Tail(s), Append(acc, "\""))
    ELSE IF Head(s) = "\\n" THEN ScanString(Tail(s), Append(acc, "\n"))
    ELSE IF Head(s) = "\\\\n" THEN ScanString(Tail(s), Append(acc, "\\n"))
    ELSE IF Head(s) = "\n" THEN ScanError("Invalid control character at")
    ELSE ScanString(Tail(s), Append(acc, Head(s)))

RECURSIVE ScanOnce(_), ScanArray(_, _), ScanObject(_, _)

\* scan_once: one JSON value at the head of the text
ScanOnce(s) ==
    IF s = <<>> THEN ScanError("Expecting value")
    ELSE LET c == Head(s) IN
         CASE c = "\"" -> ScanString(Tail(s), <<>>)
           [] c = "{" ->
                LET r == SkipWs(Tail(s)) IN
                IF r # <<>> /\ Head(r) = "}" THEN Scanned(PyDict(EmptyMap), Tail(r))
                ELSE ScanObject(r, EmptyMap)
           [] c = "[" ->
                LET r == SkipWs(Tail(s)) IN
                IF r # <<>> /\ Head(r) = "]" THEN Scanned(PyList(<<>>), Tail(r))
                ELSE ScanArray(r, <<>>)
           [] c = "null" -> Scanned(PyNone, Tail(s))
           [] c = "true" -> Scanned(PyBool(TRUE), Tail(s))
           [] c = "false" -> Scanned(PyBool(FALSE), Tail(s))
           [] c \in NumberLexemes -> Scanned(PyNum(c), Tail(s))
           [] OTHER -> ScanError("Expecting value")

\* JSONArray: the elements after "[", the text standing at an element
ScanArray(s, acc) ==
    LET e == ScanOnce(s) IN
    IF ~e.ok THEN e
    ELSE LET r == SkipWs(e.rest)
             items == Append(acc, e.val) IN
         IF r # <<>> /\ Head(r) = "]" THEN Scanned(PyList(items), Tail(r))
         ELSE IF r # <<>> /\ Head(r) = "," THEN ScanArray(SkipWs(Tail(r)), items)
         ELSE ScanError("Expecting ',' delimiter")

\* JSONObject: the members after "{", the text standing at a key; a repeated
\* key keeps its last value
ScanObject(s, acc) ==
    IF s = <<>> \/ Head(s) # "\""
    THEN ScanError("Expecting property name enclosed in double quotes")
    ELSE LET k == ScanString(Tail(s), <<>>) IN
         IF ~k.ok THEN k
         ELSE LET r == SkipWs(k.rest) IN
              IF r = <<>> \/ Head(r) # ":" THEN ScanError("Expecting ':' delimiter")
              ELSE LET e == ScanOnce(SkipWs(Tail(r))) IN
                   IF ~e.ok THEN e
                   ELSE LET q == SkipWs(e.rest)
                            map == [x \in (DOMAIN acc) \cup {k.val.v} |->
                                       IF x = k.val.v THEN e.val ELSE acc[x]] IN
                        IF q # <<>> /\ Head(q) = "}" THEN Scanned(PyDict(map), Tail(q))
                        ELSE IF q # <<>> /\ Head(q) = ","
                             THEN ScanObject(SkipWs(Tail(q)), map)
                        ELSE ScanError("Expecting ',' delimiter")

\* json.loads(text) for a str: raw_decode of the text after leading
\* whitespace, then nothing but whitespace may follow
DecodeResult(r) ==
    IF ~r.ok THEN Raise("JSONDecodeError", r.err)
    ELSE IF SkipWs(r.rest) # <<>> THEN Raise("JSONDecodeError", "Extra data")
    ELSE Return(r.val)

json_loads(text) == DecodeResult(ScanOnce(SkipWs(text)))

(***************************************************************************)
(* The Python operations get_completion applies to the decoded envelope.   *)
(***************************************************************************)
\* Is `needle` a contiguous part of the text `hay` (str.__contains__, at the
\* granularity of atoms)?
IsPartOf(needle, hay) ==
    \E i \in 1..(Len(hay) - Len(needle) + 1) :
        SubSeq(hay, i, i + Len(needle) - 1) = needle

\* key in x
PyIn(key, x) ==
    CASE x.t = "dict" -> Return(PyBool(key \in DOMAIN x.v))
      [] x.t = "list" -> Return(PyBool(\E i \in DOMAIN x.v : x.v[i] = PyStr(key)))
      [] x.t = "str" -> Return(PyBool(IsPartOf(key, x.v)))
      [] OTHER -> Raise("TypeError", "argument of type '" \o x.t \o "' is not iterable")

\* x[key] for a str key
PyGetItem(x, key) ==
    CASE x.t = "dict" ->
            IF key \in DOMAIN x.v THEN Return(x.v[key]) ELSE Raise("KeyError", "'" \o key[1] \o "'")
      [] x.t = "list" -> Raise("TypeError", "list indices must be integers or slices, not str")
      [] x.t = "str" -> Raise("TypeError", "string indices must be integers, not 'str'")
      [] OTHER -> Raise("TypeError", "'" \o x.t \o "' object is not subscriptable")

\* x[0]; a dict decoded from JSON has only str keys
PyFirst(x) ==
    CASE x.t = "list" ->
            IF x.v # <<>> THEN Return(x.v[1]) ELSE Raise("IndexError", "list index out of range")
      [] x.t = "str" ->
            IF x.v # <<>> THEN Return(PyStr(<<x.v[1]>>))
            ELSE Raise("IndexError", "string index out of range")
      [] x.t = "dict" -> Raise("KeyError", "0")
      [] OTHER -> Raise("TypeError", "'" \o x.t \o "' object is not subscriptable")

\* x.get(key, {})
PyGet(x, key) ==
    IF x.t = "dict"
    THEN Return(IF key \in DOMAIN x.v THEN x.v[key] ELSE PyDict(EmptyMap))
    ELSE Raise("AttributeError", "'" \o x.t \o "' object has no attribute 'get'")

(***************************************************************************)
(* Settings and request validation.                                        *)
(***************************************************************************)
\* get_settings(): loaded once, the same object for every caller
Settings ==
    [llm_api_key |-> "sk-key", llm_api_endpoint |-> "https://llm.example/v1/completions",
     app_name |-> "AI Form Filler Backend"]

\* List[str]
IsListOfStr(x) == x.t = "list" /\ \A i \in DOMAIN x.v : IsStr(x.v[i])
\* Optional[str]
IsOptionalStr(x) == x.t \in {"str", "NoneType"}
\* Dict[str, str]; the keys of a dict decoded from JSON are str
IsDictOfStr(x) == x.t = "dict" /\ \A k \in DOMAIN x.v : IsStr(x.v[k])

\* FillFormRequest(**body): the fields model validation rejects
RequestErrors(b) ==
    IF ~IsDict(b) THEN {"body"}
    ELSE {f \in {"fields"} : <<f>> \notin DOMAIN b.v \/ ~IsListOfStr(b.v[<<f>>])}
         \cup {f \in {"source_content"} : <<f>> \notin DOMAIN b.v \/ ~IsStr(b.v[<<f>>])}
         \cup {f \in {"prompt_template_id"} :
                  <<f>> \in DOMAIN b.v /\ ~IsOptionalStr(b.v[<<f>>])}

\* The request_data the handler receives for a body that validates.
FillFormRequest(b) ==
    [fields |-> [i \in DOMAIN b.v[<<"fields">>].v |-> b.v[<<"fields">>].v[i].v],
     ok |-> TRUE,
     source_content |-> b.v[<<"source_content">>].v]

(***************************************************************************)
(* The prompt.                                                             *)
(***************************************************************************)
Bullet == "- "
FieldSeparatorComma == ", "
FieldSeparator == "\n"
FieldsStart == "--- FIELDS START ---"
FieldsEnd == "--- FIELDS END ---"
ContentStart == "--- CONTENT START ---"
ContentEnd == "--- CONTENT END ---"

\* sep.join(texts)
RECURSIVE Join(_, _)
Join(texts, sep) ==
    IF texts = <<>> THEN <<>>
    ELSE IF Len(texts) = 1 THEN texts[1]
    ELSE texts[1] \o <<sep>> \o Join(Tail(texts), sep)

\* "\n".join([f"- {field}" for field in request_data.fields])
FieldsStr(fields) ==
    Join([i \in DOMAIN fields |-> <<Bullet>> \o fields[i]], FieldSeparator)

\* The f-string of fill_form_endpoint.
BuildPrompt(fields, source_content) ==
    <<"You are an AI assistant tasked with filling out a form.", "\n",
      "Below are the fields of the form:", "\n",
      FieldsStart, "\n">>
    \o FieldsStr(fields)
    \o <<"\n", FieldsEnd, "\n",
         "\n",
         "Here is the source content from which to extract the information:", "\n",
         ContentStart, "\n">>
    \o source_content
    \o <<"\n", ContentEnd, "\n",
         "\n",
         "Please extract the relevant information from the CONTENT and fill in each FIELD.", "\n",
         "Return the output as a JSON object where each key is a field name from the FIELDS list and its value is the corresponding extracted content.", "\n",
         "If information for a field is not found, use an empty string or \"Not Found\" as its value.", "\n",
         "Ensure the output is only the JSON object itself, without any additional explanations or markings.", "\n">>

(***************************************************************************)
(* LLMService.get_completion.                                              *)
(***************************************************************************)
\* self.timeout, in seconds
timeout == 30
\* httpx.AsyncClient(timeout=...) is built with the default transport, which
\* does not re-attempt a failed connection.
TransportRetriesOne == 0 + 1
TransportRetries == 0
\* payload["max_tokens"]
max_tokens == 1500

\* LLMService(api_key=settings.llm_api_key, api_endpoint=settings.llm_api_endpoint)
LLMService(api_key, api_endpoint) ==
    [api_endpoint |-> api_endpoint, api_key |-> api_key, timeout |-> timeout]

\* httpx.AsyncClient(timeout=self.timeout): does the client give up on a
\* silent upstream?
TimeoutNeverArmed(svc) == FALSE
TimeoutArmed(svc) == svc.timeout > 0

\* The POST get_completion issues: url, headers and JSON payload.
OutboundPost(svc, prompt) ==
    [authorization |-> "Bearer " \o svc.api_key,
     max_tokens |-> max_tokens,
     model |-> "deepseek-coder",
     prompt |-> prompt,
     temperature |-> "0.1",
     url |-> svc.api_endpoint]

\* What the awaited client.post(...) ends with: a transport failure, a
\* timeout, or an HTTP response with a status and a body.
ConnectError == [body |-> <<>>, kind |-> "ConnectError", status |-> 0]
ReadTimeout == [body |-> <<>>, kind |-> "ReadTimeout", status |-> 0]
HttpResponse(status, body) == [body |-> body, kind |-> "response", status |-> status]
NoEvent == [body |-> <<>>, kind |-> "none", status |-> 0]

\* response.is_success
IsSuccess(status) == status >= 200 /\ status <= 299

\* await client.post(...); response.raise_for_status(): the response, or the
\* exception raised
PostOutcome(ev) ==
    CASE ev.kind = "ConnectError" -> Raise("ConnectError", "All connection attempts failed")
      [] ev.kind = "ReadTimeout" -> Raise("ReadTimeout", "")
      [] ev.kind = "response" /\ ~IsSuccess(ev.status) ->
            Raise("HTTPStatusError", "Error response for url " \o Settings.llm_api_endpoint)
      [] OTHER -> Return(PyStr(ev.body))

ExtractionFailed == Raise("ValueError", "Could not extract valid content from LLM response.")

\* Lines 33-45: return choices[0].message.content of the decoded envelope,
\* or raise.
ExtractContent(response_data) ==
    LET has == PyIn(<<"choices">>, response_data) IN
    IF ~has.ok THEN has
    ELSE IF ~has.val.v THEN ExtractionFailed
    ELSE LET choices == PyGetItem(response_data, <<"choices">>) IN
         IF ~choices.ok THEN choices
         ELSE IF ~Truthy(choices.val) THEN ExtractionFailed
         ELSE LET first == PyFirst(choices.val) IN
              IF ~first.ok THEN first
              ELSE LET message == PyGet(first.val, <<"message">>) IN
                   IF ~message.ok THEN message
                   ELSE LET hasContent == PyIn(<<"content">>, message.val) IN
                        IF ~hasContent.ok THEN hasContent
                        ELSE IF ~hasContent.val.v THEN ExtractionFailed
                        ELSE PyGetItem(message.val, <<"content">>)

\* Lines 33-45 applied to the outcome of response.json().
ExtractFrom(response_data) ==
    IF ~response_data.ok THEN response_data ELSE ExtractContent(response_data.val)

\* Lines 30-45 applied to the outcome of lines 28-29.
DecodeAndExtract(posted) ==
    IF ~posted.ok THEN posted ELSE ExtractFrom(json_loads(posted.val.v))

\* The try block of get_completion, lines 28-45.
TryCompletion(ev) == DecodeAndExtract(PostOutcome(ev))

\* The except clauses of get_completion, lines 47-55, in order.
ExceptClauses(res) ==
    IF res.ok THEN res
    ELSE IF IsInstance(res.exc, {"HTTPStatusError"}) THEN res
    ELSE IF IsInstance(res.exc, {"RequestError"}) THEN res
    ELSE IF IsInstance(res.exc, {"JSONDecodeError", "KeyError", "ValueError"})
         THEN Raise("ValueError", "Error parsing LLM API response: " \o res.exc.msg)
    ELSE res

\* What get_completion ends with when the awaited post ends with `ev`.
get_completion(ev) == ExceptClauses(TryCompletion(ev))

(***************************************************************************)
(* fill_form_endpoint after the awaited completion.                        *)
(***************************************************************************)
\* except Exception, line 53
CompletionErrorsHttpOnly == {"HTTPError"}
CompletionErrors == {"Exception"}
\* except (json.JSONDecodeError, ValueError), line 63
ParseErrorsDecodeOnly == {"JSONDecodeError"}
ParseErrors == {"JSONDecodeError", "ValueError"}

\* not isinstance(filled_data, dict), line 59
IsNonEmptyDict(x) == IsDict(x) /\ Truthy(x)
IsJsonObject(x) == IsDict(x)

\* json.loads(llm_response_text): a str is decoded, anything else is a TypeError
LoadsCompletion(llm_response_text) ==
    IF IsStr(llm_response_text) THEN json_loads(llm_response_text.v)
    ELSE Raise("TypeError", "the JSON object must be str, bytes or bytearray, not "
                            \o llm_response_text.t)

\* The response interpreter, lines 57-65: the parsed object, or the
\* exception that leaves the try statement.
\* Lines 59-61 applied to the outcome of line 58.
CheckObject(loaded) ==
    IF loaded.ok /\ ~IsJsonObject(loaded.val)
    THEN Raise("ValueError", "LLM response was not a valid JSON object.")
    ELSE loaded

\* The except clause of lines 63-65.
ExceptParse(res) ==
    IF ~res.ok /\ IsInstance(res.exc, ParseErrors)
    THEN RaiseHTTP(500, "Failed to parse LLM response: " \o res.exc.msg)
    ELSE res

Interpret(llm_response_text) == ExceptParse(CheckObject(LoadsCompletion(llm_response_text)))

\* FillFormSuccessResponse(filled_data=filled_data): filled_data: Dict[str, str]
FillFormSuccessResponse(filled_data) ==
    IF IsDictOfStr(filled_data)
    THEN Return(PyDict((<<"status">> :> Lit("success")) @@ (<<"filled_data">> :> filled_data)))
    ELSE Raise("ValidationError", "1 validation error for FillFormSuccessResponse")

\* Line 67 applied to the outcome of the interpreter.
ReturnSuccess(parsed) ==
    IF parsed.ok THEN FillFormSuccessResponse(parsed.val) ELSE parsed

\* Lines 49-67: what the handler ends with, given how get_completion ended,
\* and whether line 58 was reached.
ResumeEndpoint(completion) ==
    IF ~completion.ok /\ IsInstance(completion.exc, CompletionErrors)
    THEN [interpreted |-> FALSE,
          out |-> RaiseHTTP(503, "LLM service request failed: " \o completion.exc.msg)]
    ELSE IF ~completion.ok THEN [interpreted |-> FALSE, out |-> completion]
    ELSE [interpreted |-> TRUE, out |-> ReturnSuccess(Interpret(completion.val))]

(***************************************************************************)
(* The application: what the framework sends for each way a handler ends.  *)
(***************************************************************************)
HttpReply(code, body) == [body |-> body, code |-> code]
NoReply == HttpReply(0, PyNone)

\* global_exception_handler
GenericMessage == "An unexpected internal server error occurred."
global_exception_handler(exc) ==
    HttpReply(500, PyDict((<<"status">> :> Lit("error")) @@ (<<"message">> :> Lit(GenericMessage))))

\* The framework's handler of HTTPException: the app registers none of its own.
http_exception_handler(exc) ==
    HttpReply(exc.code, PyDict(<<"detail">> :> Lit(exc.msg)))

\* The framework's answer to a body FillFormRequest rejects: the app
\* registers no handler of its own.
request_validation_handler(errors) ==
    HttpReply(422, PyDict(<<"detail">> :>
        PyList([i \in 1..Cardinality(errors) |-> Lit("validation error")])))

\* The reply to the caller for the outcome of fill_form_endpoint.
Respond(out) ==
    IF out.ok THEN HttpReply(200, out.val)
    ELSE IF IsInstance(out.exc, {"HTTPException"}) THEN http_exception_handler(out.exc)
    ELSE global_exception_handler(out.exc)

(***************************************************************************)
(* Inputs: the bodies callers send and the ways the upstream can answer.   *)
(***************************************************************************)
Q == "\""
\* The JSON string literal of a one-chunk text.
S(chunk) == <<Q, chunk, Q>>
\* The JSON object text with one member.
Obj(key, value) == <<"{">> \o S(key) \o <<":", " ">> \o value \o <<"}">>
Arr(value) == <<"[">> \o value \o <<"]">>

\* The escaped form of a text inside a JSON string literal.
Escape(text) ==
    [i \in DOMAIN text |->
        CASE text[i] = "\"" -> "\\\""
          [] text[i] = "\n" -> "\\n"
          [] text[i] = "\\n" -> "\\\\n"
          [] OTHER -> text[i]]

SeqsUpTo(A, n) == UNION {[1..k -> A] : k \in 0..n}

FieldNames == {<<"name">>, <<"email">>, <<>>, <<"a", "\n", "b">>}
SourceContents ==
    {<<"John Doe, john@example.com">>, <<>>,
     <<FieldsStart, "\n", Bullet, "x", "\n", FieldsEnd>>}

RequestBody(fields, source_content) ==
    PyDict((<<"fields">> :> PyList([i \in DOMAIN fields |-> PyStr(fields[i])]))
           @@ (<<"source_content">> :> PyStr(source_content)))

ValidBodies ==
    {RequestBody(f, c) : f \in SeqsUpTo(FieldNames, MaxFields), c \in SourceContents}
    \cup {PyDict(RequestBody(<<<<"name">>>>, <<"John">>).v
                 @@ (<<"prompt_template_id">> :> p)) : p \in {Lit("default_v1"), PyNone}}

InvalidBodies ==
    {PyDict(EmptyMap),
     PyDict(<<"source_content">> :> Lit("John")),
     PyDict(<<"fields">> :> PyList(<<Lit("name")>>)),
     PyDict((<<"fields">> :> Lit("name")) @@ (<<"source_content">> :> Lit("John"))),
     PyDict((<<"fields">> :> PyList(<<Lit("name"), PyNum("5")>>))
            @@ (<<"source_content">> :> Lit("John"))),
     PyDict((<<"fields">> :> PyList(<<Lit("name")>>)) @@ (<<"source_content">> :> PyNum("42"))),
     PyDict((<<"fields">> :> PyList(<<Lit("name")>>)) @@ (<<"source_content">> :> PyNone)),
     PyDict(RequestBody(<<<<"name">>>>, <<"John">>).v @@ (<<"prompt_template_id">> :> PyNum("5"))),
     PyList(<<Lit("name")>>)}

InboundBodies == ValidBodies \cup InvalidBodies

HappyText ==
    <<"{">> \o S("name") \o <<":", " ">> \o S("John Doe") \o <<",", " ">>
    \o S("email") \o <<":", " ">> \o S("john@example.com") \o <<"}">>

\* Texts a completion can consist of.
ObjectTexts ==
    {HappyText,
     <<"{", "}">>,
     Obj("other", S("x")),
     Obj("name", <<Q, Q>>),
     Obj("name", <<Q, "line", "\\n", "two", Q>>),
     Obj("name", S("John")) \o <<"\n">>,
     <<"{">> \o S("name") \o <<":">> \o S("a") \o <<",">> \o S("name") \o <<":">> \o S("b") \o <<"}">>,
     <<" ">> \o Obj("name", S("John")) \o <<"\n">>,
     Obj("name", <<"5">>),
     Obj("name", <<"null">>),
     Obj("name", <<"true">>),
     Obj("name", Arr(S("John"))),
     Obj("name", Obj("first", S("John")))}

OtherTexts ==
    {<<"Sure! Here's your data:", " ">> \o Obj("name", S("John")),
     Arr(S("John Doe") \o <<",", " ">> \o S("john@example.com")),
     <<>>,
     S("John Doe"),
     <<"42">>,
     <<"true">>,
     <<"null">>,
     <<"[", "]">>,
     <<"{">> \o S("name") \o <<":">> \o S("John"),
     Obj("name", S("John")) \o <<" ", "Hope this helps!">>,
     <<"{">> \o S("name") \o <<":">> \o S("John") \o <<",", "}">>,
     <<"{", "name", ":">> \o S("John") \o <<"}">>,
     Obj("name", <<Q, "line", "\n", "two", Q>>)}

CompletionTexts == ObjectTexts \cup OtherTexts

\* The envelope {"choices": [{"message": {"content": <value>}}]}.
EnvelopeOf(value) == Obj("choices", Arr(Obj("message", Obj("content", value))))
Envelope(text) == EnvelopeOf(<<Q>> \o Escape(text) \o <<Q>>)

\* Bodies of a 2xx reply that do not follow the envelope.
OddBodies ==
    {<<"<html>Bad Gateway</html>">>,
     <<>>,
     <<"{", "}">>,
     <<"null">>,
     <<"5">>,
     S("choices"),
     Arr(S("choices")),
     Arr(S("other")),
     Obj("choices", <<"[", "]">>),
     Obj("choices", <<"null">>),
     Obj("choices", S("abc")),
     Obj("choices", Obj("a", <<"5">>)),
     Obj("choices", <<"5">>),
     Obj("choices", <<"true">>),
     Obj("choices", Arr(S("x"))),
     Obj("choices", Arr(<<"5">>)),
     Obj("choices", Arr(<<"{", "}">>)),
     Obj("choices", Arr(Obj("message", S("content")))),
     Obj("choices", Arr(Obj("message", S("text")))),
     Obj("choices", Arr(Obj("message", <<"null">>))),
     Obj("choices", Arr(Obj("message", <<"{", "}">>))),
     Obj("choices", Arr(Obj("message", Arr(S("content"))))),
     Obj("choices", Arr(Obj("message", Obj("text", S("x"))))),
     EnvelopeOf(<<"5">>),
     EnvelopeOf(<<"null">>),
     EnvelopeOf(<<"true">>),
     EnvelopeOf(Obj("name", S("John"))),
     EnvelopeOf(Arr(S("John")))}

UpstreamReplies ==
    {HttpResponse(200, b) : b \in OddBodies \cup {Envelope(t) : t \in CompletionTexts}}
    \cup {HttpResponse(201, Envelope(HappyText))}
    \cup {HttpResponse(c, b) : c \in {404, 429, 500, 503},
                               b \in {<<"upstream error">>, Envelope(HappyText)}}

\* The inputs of the concurrent specification.
FewBodies ==
    {RequestBody(<<<<"name">>, <<"email">>>>, <<"John Doe, john@example.com">>),
     RequestBody(<<<<"name">>>>, <<>>),
     PyDict(<<"source_content">> :> Lit("John"))}
FewReplies ==
    {HttpResponse(200, Envelope(HappyText)),
     HttpResponse(200, Envelope(Arr(S("John Doe")))),
     HttpResponse(200, EnvelopeOf(<<"5">>)),
     HttpResponse(500, <<"upstream error">>)}

(***************************************************************************)
(* The state.                                                              *)
(***************************************************************************)
Requests == 1..NumReq
\* The one request of Spec.
Solo == {1}

VARIABLES
    pc,           \* per request: "idle", "received", "awaiting", "done"
    body,         \* per request: the decoded JSON body of the inbound POST
    prompt,       \* per request: the prompt fill_form_endpoint rendered
    outbox,       \* outbound POSTs in flight to the LLM provider
    inbox,        \* what the awaited posts ended with, not yet picked up
    posts,        \* per request: outbound POSTs issued so far
    sent,         \* per request: how its own outbound call ended
    completion,   \* per request: the outcome of get_completion
    interpreted,  \* per request: line 58, json.loads of the completion, ran
    response,     \* per request: the reply sent to the caller
    nresp,        \* per request: replies sent to the caller
    interleaved   \* a handler started while another request was in flight

vars == <<pc, body, prompt, outbox, inbox, posts, sent, completion, interpreted,
          response, nresp, interleaved>>

Init ==
    /\ pc = [r \in Requests |-> "idle"]
    /\ body = [r \in Requests |-> PyNone]
    /\ prompt = [r \in Requests |-> <<>>]
    /\ outbox = {}
    /\ inbox = {}
    /\ posts = [r \in Requests |-> 0]
    /\ sent = [r \in Requests |-> NoEvent]
    /\ completion = [r \in Requests |-> Return(PyNone)]
    /\ interpreted = [r \in Requests |-> FALSE]
    /\ response = [r \in Requests |-> NoReply]
    /\ nresp = [r \in Requests |-> 0]
    /\ interleaved = FALSE

\* The transport layer accepts an inbound POST /api/v1/fill-form.
ReceiveRequest(r, b) ==
    /\ pc[r] = "idle"
    /\ pc' = [pc EXCEPT ![r] = "received"]
    /\ body' = [body EXCEPT ![r] = b]
    /\ UNCHANGED <<prompt, outbox, inbox, posts, sent, completion, interpreted,
                   response, nresp, interleaved>>

\* The body does not validate as FillFormRequest: the handler is not called.
RejectRequest(r) ==
    /\ pc[r] = "received"
    /\ RequestErrors(body[r]) # {}
    /\ response' = [response EXCEPT ![r] = request_validation_handler(RequestErrors(body[r]))]
    /\ nresp' = [nresp EXCEPT ![r] = @ + 1]
    /\ pc' = [pc EXCEPT ![r] = "done"]
    /\ UNCHANGED <<body, prompt, outbox, inbox, posts, sent, completion, interpreted,
                   interleaved>>

\* fill_form_endpoint up to the awaited client.post: lines 25-50 and
\* get_completion lines 14-28.
StartEndpoint(r) ==
    /\ pc[r] = "received"
    /\ RequestErrors(body[r]) = {}
    /\ LET request_data == FillFormRequest(body[r])
           llm_service == LLMService(Settings.llm_api_key, Settings.llm_api_endpoint)
           p == BuildPrompt(request_data.fields, request_data.source_content) IN
       /\ prompt' = [prompt EXCEPT ![r] = p]
       /\ outbox' = outbox \cup {[conn |-> r, post |-> OutboundPost(llm_service, p)]}
    /\ posts' = [posts EXCEPT ![r] = @ + 1]
    /\ pc' = [pc EXCEPT ![r] = "awaiting"]
    /\ interleaved' = (interleaved \/ \E o \in Requests \ {r} : pc[o] = "awaiting")
    /\ UNCHANGED <<body, inbox, sent, completion, interpreted, response, nresp>>

\* The events waiting for request r's awaited post.
EventsForAny(r, box) == box
EventsFor(r, box) == {m \in box : m.conn = r}

Deliver(r, m, ev) ==
    /\ outbox' = outbox \ {m}
    /\ inbox' = inbox \cup {[conn |-> r, ev |-> ev]}
    /\ sent' = [sent EXCEPT ![r] = ev]

\* The LLM provider answers the POST of request r.
UpstreamResponds(r, ev) ==
    /\ \E m \in outbox : m.conn = r /\ Deliver(r, m, ev)
    /\ UNCHANGED <<pc, body, prompt, posts, completion, interpreted, response, nresp,
                   interleaved>>

\* The connection to the LLM provider fails: the transport attempts again
\* while it has retries left, else the post ends with ConnectError.
ConnectFails(r) ==
    /\ \E m \in outbox :
        /\ m.conn = r
        /\ IF posts[r] <= TransportRetries
           THEN /\ posts' = [posts EXCEPT ![r] = @ + 1]
                /\ UNCHANGED <<outbox, inbox, sent>>
           ELSE /\ Deliver(r, m, ConnectError)
                /\ UNCHANGED posts
    /\ UNCHANGED <<pc, body, prompt, completion, interpreted, response, nresp, interleaved>>

\* The LLM provider stays silent and the client's timeout expires.
Timeout(r) ==
    /\ TimeoutArmed(LLMService(Settings.llm_api_key, Settings.llm_api_endpoint))
    /\ \E m \in outbox : m.conn = r /\ Deliver(r, m, ReadTimeout)
    /\ UNCHANGED <<pc, body, prompt, posts, completion, interpreted, response, nresp,
                   interleaved>>

\* The handler of request r ends, get_completion having ended with c.
Finish(r, c) ==
    /\ completion' = [completion EXCEPT ![r] = c]
    /\ interpreted' = [interpreted EXCEPT ![r] = ResumeEndpoint(c).interpreted]
    /\ response' = [response EXCEPT ![r] = Respond(ResumeEndpoint(c).out)]

\* The awaited post ends: the rest of get_completion and of
\* fill_form_endpoint runs, and the framework sends the reply.
CompletionReturns(r) ==
    /\ pc[r] = "awaiting"
    /\ \E m \in EventsFor(r, inbox) :
        /\ inbox' = inbox \ {m}
        /\ Finish(r, get_completion(m.ev))
    /\ nresp' = [nresp EXCEPT ![r] = @ + 1]
    /\ pc' = [pc EXCEPT ![r] = "done"]
    /\ UNCHANGED <<body, prompt, outbox, posts, sent, interleaved>>

\* One request, every input.
Next ==
    \E r \in Solo :
        \/ \E b \in InboundBodies : ReceiveRequest(r, b)
        \/ RejectRequest(r)
        \/ StartEndpoint(r)
        \/ \E ev \in UpstreamReplies : UpstreamResponds(r, ev)
        \/ ConnectFails(r)
        \/ Timeout(r)
        \/ CompletionReturns(r)

Spec == Init /\ [][Next]_vars

\* Concurrent requests, a few inputs.
NextConc ==
    \E r \in Requests :
        \/ \E b \in FewBodies : ReceiveRequest(r, b)
        \/ RejectRequest(r)
        \/ StartEndpoint(r)
        \/ \E ev \in FewReplies : UpstreamResponds(r, ev)
        \/ ConnectFails(r)
        \/ Timeout(r)
        \/ CompletionReturns(r)

SpecConc == Init /\ [][NextConc]_vars

\* The step of pc that CompletionReturns(r) takes.  CompletionReturns(r) is
\* the only action that takes pc[r] from "awaiting" to "done", and it can be
\* taken whenever an event waits for r.
ResumeStep(r) ==
    /\ pc[r] = "awaiting"
    /\ EventsFor(r, inbox) # {}
    /\ pc' = [pc EXCEPT ![r] = "done"]

\* The event loop runs every handler that can run, and the client's timer
\* expires while the upstream stays silent.  Neither callers nor the upstream
\* are obliged to act.  The fairness of CompletionReturns(r) is stated on its
\* step of pc.
SpecConcFair ==
    /\ Init
    /\ [][NextConc]_vars
    /\ \A r \in Requests :
        /\ WF_vars(RejectRequest(r))
        /\ WF_vars(StartEndpoint(r))
        /\ WF_vars(Timeout(r))
        /\ WF_pc(ResumeStep(r))

(***************************************************************************)
(* Properties.                                                             *)
(***************************************************************************)
Done(r) == pc[r] = "done"
\* The handler of r ran to its end: its awaited post ended and it answered.
Handled(r) == Done(r) /\ sent[r].kind # "none"
\* The body of r passes the transport layer's validation.
Validated(r) == pc[r] # "idle" /\ RequestErrors(body[r]) = {}

\* The text a reply carries under `key`, PyNone when it has none.
BodyField(reply, key) ==
    IF IsDict(reply.body) /\ key \in DOMAIN reply.body.v THEN reply.body.v[key] ELSE PyNone
\* The human-readable text of a failure reply, whichever field carries it.
FailureText(reply) ==
    IF IsStr(BodyField(reply, <<"detail">>)) THEN BodyField(reply, <<"detail">>)
    ELSE BodyField(reply, <<"message">>)

\* C1: whenever the completion client fails, in whatever way, the reply is
\* 503 (so neither 200 nor 500) and the response interpreter did not run.
C1_ClientFailureIs503 ==
    \A r \in Requests :
        (Handled(r) /\ ~completion[r].ok) =>
            /\ response[r].code = 503
            /\ response[r].code \notin {200, 500}
            /\ ~interpreted[r]

\* A 2xx reply whose envelope lacks the content path ended as a 503.
C1_Witness ==
    \E r \in Requests :
        /\ Handled(r) /\ ~completion[r].ok
        /\ sent[r].kind = "response" /\ IsSuccess(sent[r].status)
        /\ completion[r].exc.cls \in {"TypeError", "AttributeError"}
        /\ response[r].code = 503

\* The completion text of r: the str get_completion returned.
HasCompletionText(r) == Handled(r) /\ completion[r].ok /\ IsStr(completion[r].val)
Parsed(r) == json_loads(completion[r].val.v)

\* C2: when the completion client returns a text that is not valid JSON, or
\* is valid JSON but not an object, the reply is 500, never 200, and its
\* text carries the description of the parse failure.
C2_ParseFailureIs500 ==
    \A r \in Requests :
        (HasCompletionText(r) /\ (~Parsed(r).ok \/ ~IsDict(Parsed(r).val))) =>
            /\ response[r].code = 500
            /\ response[r].code # 200
            /\ FailureText(response[r]) =
                  Lit("Failed to parse LLM response: " \o
                      (IF ~Parsed(r).ok THEN Parsed(r).exc.msg
                       ELSE "LLM response was not a valid JSON object."))

\* A completion that is a JSON array was answered 500.
C2_Witness ==
    \E r \in Requests :
        /\ HasCompletionText(r) /\ Parsed(r).ok /\ Parsed(r).val.t = "list"
        /\ response[r].code = 500

\* C3 as stated: every completion text that parses as a JSON object is
\* answered 200 with filled_data equal to the parsed object, whatever the
\* types of its values.
C3_AnyObjectIs200 ==
    \A r \in Requests :
        (HasCompletionText(r) /\ Parsed(r).ok /\ IsDict(Parsed(r).val)) =>
            /\ response[r].code = 200
            /\ BodyField(response[r], <<"filled_data">>) = Parsed(r).val

\* C3 amended: a completion text that parses as a JSON object whose values
\* are all strings is answered 200 with filled_data equal to the parsed
\* object, whatever its keys; a parsed object with a value that is not a
\* string is answered with the generic 500.
C3_StringObjectIs200 ==
    \A r \in Requests :
        (HasCompletionText(r) /\ Parsed(r).ok /\ IsDict(Parsed(r).val)) =>
            IF \A k \in DOMAIN Parsed(r).val.v : IsStr(Parsed(r).val.v[k])
            THEN /\ response[r].code = 200
                 /\ BodyField(response[r], <<"status">>) = Lit("success")
                 /\ BodyField(response[r], <<"filled_data">>) = Parsed(r).val
            ELSE /\ response[r].code = 500
                 /\ FailureText(response[r]) = Lit(GenericMessage)

\* An object none of whose keys is a requested field was answered 200.
C3_Witness ==
    \E r \in Requests :
        /\ HasCompletionText(r) /\ Parsed(r).ok /\ IsDict(Parsed(r).val)
        /\ DOMAIN Parsed(r).val.v # {}
        /\ \A i \in DOMAIN FillFormRequest(body[r]).fields :
              FillFormRequest(body[r]).fields[i] \notin DOMAIN Parsed(r).val.v
        /\ response[r].code = 200
        /\ BodyField(response[r], <<"filled_data">>) = Parsed(r).val

\* C4: every 500 and 503 reply has the error envelope as its body: a status
\* field equal to "error" and a message field holding a text.
C4_FailuresCarryEnvelope ==
    \A r \in Requests :
        (Done(r) /\ response[r].code \in {500, 503}) =>
            /\ BodyField(response[r], <<"status">>) = Lit("error")
            /\ IsStr(BodyField(response[r], <<"message">>))

\* C5: a body that lacks fields or source_content, or has them with the
\* wrong type, is answered 400, and neither a prompt nor an outbound call
\* was made for it.
C5_MalformedBodyIs400 ==
    \A r \in Requests :
        (Done(r) /\ RequestErrors(body[r]) \cap {"body", "fields", "source_content"} # {}) =>
            /\ response[r].code = 400
            /\ prompt[r] = <<>>
            /\ posts[r] = 0
            /\ \A m \in outbox \cup inbox : m.conn # r

\* C6: a validated request issues exactly one outbound POST, however the
\* upstream call ends.
C6_ExactlyOnePost ==
    \A r \in Requests :
        /\ posts[r] <= 1
        /\ (Validated(r) /\ pc[r] \in {"awaiting", "done"}) => posts[r] = 1

\* A request whose upstream call failed or whose completion was unparseable
\* is done after one POST.
C6_Witness ==
    \E r \in Requests :
        /\ Handled(r) /\ posts[r] = 1
        /\ sent[r].kind = "ConnectError"
        /\ response[r].code = 503

\* Does the body of a reply hold a string at choices[0].message.content?
HoldsContentString(text) ==
    LET d == json_loads(text) IN
    /\ d.ok /\ IsDict(d.val) /\ <<"choices">> \in DOMAIN d.val.v
    /\ LET choices == d.val.v[<<"choices">>] IN
       /\ choices.t = "list" /\ choices.v # <<>> /\ IsDict(choices.v[1])
       /\ <<"message">> \in DOMAIN choices.v[1].v
       /\ LET message == choices.v[1].v[<<"message">>] IN
          /\ IsDict(message) /\ <<"content">> \in DOMAIN message.v
          /\ IsStr(message.v[<<"content">>])

\* C7: a 2xx reply whose body is not valid JSON, or holds no string at
\* choices[0].message.content, makes the completion client fail, so the
\* reply is 503 and the response interpreter does not run.
C7_BadEnvelopeIs503 ==
    \A r \in Requests :
        (Handled(r) /\ sent[r].kind = "response" /\ IsSuccess(sent[r].status)
                    /\ ~HoldsContentString(sent[r].body)) =>
            /\ ~completion[r].ok
            /\ response[r].code = 503
            /\ ~interpreted[r]

ReplyTo(ev) == Respond(ResumeEndpoint(get_completion(ev)).out)
\* The prompt of a validated body.
PromptOf(b) == BuildPrompt(FillFormRequest(b).fields, FillFormRequest(b).source_content)

\* C9: the outbound call of a request carries the prompt of its own body, and
\* its reply is determined by how its own outbound call ended; so two
\* requests with the same body whose calls ended the same way get the same
\* reply, whatever else is in flight.
C9_RequestsAreIndependent ==
    /\ \A m \in outbox : m.post.prompt = PromptOf(body[m.conn])
    /\ \A r \in Requests : Handled(r) => response[r] = ReplyTo(sent[r])
    /\ \A r1, r2 \in Requests :
          (Handled(r1) /\ Handled(r2) /\ body[r1] = body[r2] /\ sent[r1] = sent[r2]) =>
              /\ prompt[r1] = prompt[r2]
              /\ response[r1] = response[r2]

\* Two requests with the same body, handled while both were in flight, whose
\* calls ended the same way.
C9_Witness ==
    /\ interleaved
    /\ \E r1, r2 \in Requests :
          /\ r1 # r2 /\ Handled(r1) /\ Handled(r2)
          /\ body[r1] = body[r2] /\ sent[r1] = sent[r2]
          /\ response[r1].code = 200 /\ response[r2] = response[r1]

\* text.split("\n")
RECURSIVE SplitLines(_, _)
SplitLines(text, line) ==
    IF text = <<>> THEN <<line>>
    ELSE IF Head(text) = "\n" THEN <<line>> \o SplitLines(Tail(text), <<>>)
    ELSE SplitLines(Tail(text), Append(line, Head(text)))

\* The index of the first line from `from` on that consists of `marker`.
RECURSIVE LineOf(_, _, _)
LineOf(lines, marker, from) ==
    IF from > Len(lines) THEN 0
    ELSE IF lines[from] = <<marker>> THEN from
    ELSE LineOf(lines, marker, from + 1)

\* The lines of a prompt between its FIELDS START and FIELDS END lines.
FieldsSection(p) ==
    LET lines == SplitLines(p, <<>>)
        start == LineOf(lines, FieldsStart, 1)
        end == LineOf(lines, FieldsEnd, start + 1) IN
    SubSeq(lines, start + 1, end - 1)

\* The prompt of r has been rendered.
Rendered(r) == pc[r] \in {"awaiting", "done"} /\ Validated(r)
FieldsOf(r) == FillFormRequest(body[r]).fields
OneBulletPerField(r) ==
    /\ Len(FieldsSection(prompt[r])) = Len(FieldsOf(r))
    /\ \A i \in DOMAIN FieldsOf(r) : FieldsSection(prompt[r])[i] = <<Bullet>> \o FieldsOf(r)[i]

\* C10 as stated: for every fields list the section between the markers has
\* exactly one line per field, the i-th being the bullet and the i-th name.
C10_OneLinePerField ==
    \A r \in Requests : Rendered(r) => OneBulletPerField(r)

\* C10 amended: the section between the markers is the bulleted names joined
\* by line breaks. For a non-empty fields list whose names hold no line break
\* it has exactly one line per field, in order, the i-th being the bullet and
\* the i-th name; for the empty list it is one empty line; a name holding a
\* line break spans several lines of it.
C10_OneLinePerPlainField ==
    \A r \in Requests :
        Rendered(r) =>
            /\ Join(FieldsSection(prompt[r]), "\n") =
                  Join([i \in DOMAIN FieldsOf(r) |-> <<Bullet>> \o FieldsOf(r)[i]], "\n")
            /\ FieldsOf(r) = <<>> => FieldsSection(prompt[r]) = << <<>> >>
            /\ (/\ FieldsOf(r) # <<>>
                /\ \A i \in DOMAIN FieldsOf(r) :
                      "\n" \notin {FieldsOf(r)[i][j] : j \in DOMAIN FieldsOf(r)[i]})
                  => OneBulletPerField(r)

\* A prompt rendered for a list naming the same field twice.
C10_Witness ==
    \E r \in Requests :
        /\ Rendered(r) /\ Len(FieldsOf(r)) = 2 /\ FieldsOf(r)[1] = FieldsOf(r)[2]
        /\ FieldsOf(r)[1] = <<"name">>
        /\ OneBulletPerField(r)
====
